---- MODULE Spec2Model ----
(***************************************************************************)
(* Model of the Lachain target backend (src/src/emit/lachain.rs).          *)
(*                                                                         *)
(* The backend emits code; the model is the execution of the emitted code  *)
(* of one invocation of the contract's "start" routine against the host.   *)
(* Every lowering operation of the backend is one action: it performs the  *)
(* call instructions the operation emits, in the order it emits them, on   *)
(* the host state (storage, return buffer, halt status).                   *)
(*                                                                         *)
(* Integers of the generated code are written as digit sequences in base   *)
(* 256, most significant digit first.  Memory is little-endian (wasm), so  *)
(* a store writes the digits in reverse order and a load reads them back   *)
(* reversed.                                                               *)
(***************************************************************************)
EXTENDS Integers, Sequences, FiniteSets, TLC

VARIABLES
    contract,        \* the dispatch table the entry routine was compiled from
    pc,              \* "start", "body", "halted", "returned", "fatal"
    cur,             \* index into contract of the function whose body runs (0: none)
    decoded,         \* TRUE once abi_decode has run for this invocation
    msgvalue,        \* the value the invocation carries (digits, MSB first)
    calldata,        \* the call data of the invocation (bytes)
    storage,         \* host: slot -> 32-byte word
    storage_string,  \* host: slot -> byte sequence
    retbuf,          \* host: what set_return was last given
    halt,            \* host: status given to system_halt, -1 before
    calls,           \* the call instructions executed so far, in order
    last,            \* the lowering operation executed last, with its result
    lastWrite,       \* history: per slot, the last write the slot has seen
    nops             \* number of body operations executed

vars == <<contract, pc, cur, decoded, msgvalue, calldata, storage, storage_string,
          retbuf, halt, calls, last, lastWrite, nops>>

-----------------------------------------------------------------------------
(* Bounds of the model *)

NumSlots == 2
MaxOps == 2
MaxStrLen == 2

(* Program constants *)

WordBytes == 32
ValueLen == 32
Bzero8Words == 4
SelectorLen == 4
AddressLen == 20
GasLen == 8
NoHalt == 0 - 1

Slots == 1..NumSlots

-----------------------------------------------------------------------------
(* Bytes, integers and memory *)

Reverse(s) == [i \in 1..Len(s) |-> s[Len(s) + 1 - i]]

Fill(n, b) == [i \in 1..n |-> b]

IsZero(s) == \A i \in 1..Len(s) : s[i] = 0

\* build_store of an integer: its bytes in memory, least significant first
StoreInt(v) == Reverse(v)

\* build_load of an integer of n bytes from the start of a buffer
LoadInt(buf, n) == Reverse(SubSeq(buf, 1, n))

\* a store of bytes at the start of a buffer, the rest of the buffer kept
Overlay(buf, bytes) ==
    [i \in 1..Len(buf) |-> IF i <= Len(bytes) THEN bytes[i] ELSE buf[i]]

\* __bzero8(ptr, n): zero n 8-byte words starting at ptr
Bzero8(buf, n) == [i \in 1..Len(buf) |-> IF i <= 8 * n THEN 0 ELSE buf[i]]

\* __be32toleN / __beNtoleN (from, to, n): to[i] = from[n - 1 - i]
BeNtoleN(from, n) == [i \in 1..n |-> from[n + 1 - i]]

-----------------------------------------------------------------------------
(* Call instructions *)

HostCall(prim, ptrs, data, nums) ==
    [prim |-> prim, ptrs |-> ptrs, data |-> data, nums |-> nums]

\* the names declare_externals declares
HostPrimitives ==
    {"save_storage", "load_storage", "save_storage_string", "load_storage_string",
     "get_storage_string_size", "get_call_size", "get_return_size",
     "copy_call_value", "copy_return_value", "invoke_contract",
     "invoke_static_contract", "invoke_delegate_contract", "transfer",
     "get_msgvalue", "get_address", "get_sender", "get_external_balance",
     "get_gas_left", "get_tx_gas_price", "get_tx_origin", "get_block_number",
     "get_block_hash", "get_block_gas_limit", "get_block_difficulty",
     "get_block_coinbase_address", "get_block_timestamp", "get_chain_id",
     "create", "create2", "write_log", "set_return", "crypto_keccak256",
     "crypto_ripemd160", "crypto_sha256", "crypto_recover", "system_halt"}

\* the helpers of the standard library linked into the module
StdlibFunctions ==
    {"__init_heap", "__malloc", "__memcpy", "__bzero8", "__be32toleN", "__beNtoleN"}

\* module.get_function(name): the name is declared in the module
get_function(name) == name \in HostPrimitives \cup StdlibFunctions

\* the names a sequence of call instructions looks up that are not declared
Missing(cs) == {cs[i].prim : i \in {j \in 1..Len(cs) : ~get_function(cs[j].prim)}}

StoragePrimitives ==
    {"save_storage", "load_storage", "save_storage_string", "load_storage_string",
     "get_storage_string_size"}

\* the calls from position n + 1 on
CallsFrom(n) == SubSeq(calls, n + 1, Len(calls))

\* the host primitive invocations among a sequence of calls
RECURSIVE HostOnly(_)
HostOnly(s) ==
    IF s = <<>> THEN <<>>
    ELSE IF Head(s).prim \in HostPrimitives THEN <<Head(s)>> \o HostOnly(Tail(s))
    ELSE HostOnly(Tail(s))

RECURSIVE CountPrim(_, _)
CountPrim(s, P) ==
    IF s = <<>> THEN 0
    ELSE (IF Head(s).prim \in P THEN 1 ELSE 0) + CountPrim(Tail(s), P)

-----------------------------------------------------------------------------
(* The record of the operation executed last *)

NoPrior == [kind |-> "none", val |-> <<>>, before |-> <<>>]

Op(op, slot, width, val, out, hdr, flag, from, prior) ==
    [op |-> op, slot |-> slot, width |-> width, val |-> val, out |-> out,
     hdr |-> hdr, flag |-> flag, from |-> from, prior |-> prior]

NoOp == Op("none", 0, 0, <<>>, <<>>, <<>>, "none", 0, NoPrior)

NoRet == [set |-> FALSE, ptr |-> "none", data |-> <<>>, len |-> 0]

-----------------------------------------------------------------------------
(* Inputs *)

ZeroValue == Fill(ValueLen, 0)
LowValue == [i \in 1..ValueLen |-> IF i = ValueLen THEN 1 ELSE 0]
HighValue == [i \in 1..ValueLen |-> IF i = 1 THEN 1 ELSE 0]
AscValue == [i \in 1..ValueLen |-> i]

MsgValues == {ZeroValue, LowValue, HighValue}

Sel1 == <<1, 2, 3, 4>>
Sel2 == <<5, 6, 7, 8>>
SelNone == <<4, 3, 2, 1>>

\* the selector as the 32-bit number the dispatch table holds
SelectorOf(bytes) == ((bytes[1] * 256 + bytes[2]) * 256 + bytes[3]) * 256 + bytes[4]

Entry(sel, payable, nparams) ==
    [selector |-> SelectorOf(sel), nonpayable |-> ~payable, nparams |-> nparams]

\* the dispatch tables the entry routine is compiled from
Contracts ==
    { <<Entry(Sel1, TRUE, 0), Entry(Sel2, FALSE, 1)>>,
      <<Entry(Sel2, FALSE, 1), Entry(Sel1, TRUE, 1)>>,
      <<Entry(Sel1, FALSE, 0), Entry(Sel2, FALSE, 1)>> }

ArgWord == AscValue

CallDatas ==
    { <<>>, <<1, 2>>,
      Sel1, Sel1 \o <<9>>, Sel1 \o ArgWord,
      Sel2, Sel2 \o <<9>>, Sel2 \o ArgWord,
      SelNone, SelNone \o <<9>>, SelNone \o ArgWord }

-----------------------------------------------------------------------------
(* Termination primitives *)

\* a system_halt that hands control back to its caller
system_halt_returns == FALSE

\* system_halt is declared noreturn: the host never returns from it
system_halt_noreturn == TRUE

\* a halt with a log written between set_return and system_halt
HaltCalls_logged(ptr, data, len, status) ==
    << HostCall("set_return", <<ptr>>, <<data>>, <<len>>),
       HostCall("write_log", <<ptr>>, <<data>>, <<len>>),
       HostCall("system_halt", <<>>, <<>>, <<status>>) >>

\* set_return(data, len) followed by system_halt(status) and the unreachable
\* marker, which executes only if the halt returns
HaltCalls(ptr, data, len, status) ==
    << HostCall("set_return", <<ptr>>, <<data>>, <<len>>),
       HostCall("system_halt", <<>>, <<>>, <<status>>) >> \o
    (IF system_halt_noreturn THEN <<>>
     ELSE << HostCall("unreachable", <<>>, <<>>, <<>>) >>)

\* assert_failure: set_return(data, len); system_halt(1)
assert_failure(ptr, data, len) == HaltCalls(ptr, data, len, 1)

\* return_code handing its code to the halt
return_code_status(code) == HaltCalls("null", <<>>, 0, code)

\* return_code reporting its code as the returned data
return_code_data(code) == HaltCalls("code", <<code>>, 1, 1)

\* return_code as an ordinary return from "start"
return_code_returns(code) == <<>>

\* return_code: assert_failure(null, 0) whatever the code
return_code(code) == assert_failure("null", <<>>, 0)

\* return_abi halting with the status of a revert
return_abi_revert(ptr, data, len) == HaltCalls(ptr, data, len, 1)

\* return_abi: set_return(data, length); system_halt(0)
return_abi(ptr, data, len) == HaltCalls(ptr, data, len, 0)

\* return_empty_abi: set_return(null, 0); system_halt(0)
return_empty_abi == HaltCalls("null", <<>>, 0, 0)

\* the host state after a sequence of calls that ends in set_return; system_halt
RetOf(cs) ==
    LET c == cs[Len(cs) - 1]
    IN  [set |-> TRUE, ptr |-> c.ptrs[1], data |-> c.data[1], len |-> c.nums[1]]

StatusOf(cs) == cs[Len(cs)].nums[1]

Halts(cs) == cs /= <<>> /\ cs[Len(cs)].prim = "system_halt"

-----------------------------------------------------------------------------
(* Execution entry: prelude and dispatch *)

\* set_early_value_aborts: no function of the contract may receive value
function_abort_value_transfers(c) == \A i \in 1..Len(c) : c[i].nonpayable

\* value_transferred: get_msgvalue into a scratch word, then load it
value_transferred(val) ==
    << HostCall("get_msgvalue", <<"value_transferred">>, <<StoreInt(val)>>, <<>>) >>

\* abort_if_value_transfer: revert with empty data when value was sent
abort_if_value_transfer(val) ==
    value_transferred(val) \o
    (IF ~IsZero(LoadInt(StoreInt(val), ValueLen)) THEN assert_failure("null", <<>>, 0) ELSE <<>>)

\* a prelude that allocates on a heap it never initialised
runtime_prelude_noheap(c, cd, val) ==
    << HostCall("get_call_size", <<>>, <<>>, <<Len(cd)>>),
       HostCall("__malloc", <<"args">>, <<>>, <<Len(cd)>>),
       HostCall("copy_call_value", <<"args">>, <<cd>>, <<0, Len(cd)>>) >>

\* runtime_prelude: value check (when no function is payable), heap, call data
runtime_prelude(c, cd, val) ==
    LET early == IF function_abort_value_transfers(c)
                 THEN abort_if_value_transfer(val) ELSE <<>>
    IN  IF Halts(early) THEN early
        ELSE early \o
             << HostCall("__init_heap", <<>>, <<>>, <<>>),
                HostCall("get_call_size", <<>>, <<>>, <<Len(cd)>>),
                HostCall("__malloc", <<"args">>, <<>>, <<Len(cd)>>),
                HostCall("copy_call_value", <<"args">>, <<cd>>, <<0, Len(cd)>>) >>

\* function_dispatch asking for a check in every non-payable function
NonpayableCheck_always(c, f) == f.nonpayable

\* function_dispatch asking for no value check at all
NonpayableCheck_never(c, f) == FALSE

\* the predicate function_dispatch hands to the dispatcher: which functions
\* get their own value check
NonpayableCheck(c, f) == ~function_abort_value_transfers(c) /\ f.nonpayable

\* the entry of the table the selector of the call data matches (0: none)
Match(c, cd) ==
    IF Len(cd) < SelectorLen THEN 0
    ELSE LET sel == SelectorOf(SubSeq(cd, 1, SelectorLen))
             hit == {i \in 1..Len(c) : c[i].selector = sel}
         IN  IF hit = {} THEN 0 ELSE CHOOSE i \in hit : TRUE

\* abi_decode: the remaining bytes hold one 32-byte word per parameter
DecodeOk(f, cd) == Len(cd) - SelectorLen >= WordBytes * f.nparams

\* abi_decode going on after a failed decode
abi_decode_lenient(f, cd) ==
    << HostCall("abi_decode", <<"args">>, <<cd>>, <<Len(cd), f.nparams>>) >>

abi_decode(f, cd) ==
    << HostCall("abi_decode", <<"args">>, <<cd>>, <<Len(cd), f.nparams>>) >> \o
    (IF DecodeOk(f, cd) THEN <<>> ELSE assert_failure("null", <<>>, 0))

\* emit_function_dispatch for the message-call table
emit_function_dispatch(c, cd, val) ==
    LET m == Match(c, cd)
    IN  IF m = 0 THEN return_code(0)
        ELSE LET check == IF NonpayableCheck(c, c[m])
                          THEN abort_if_value_transfer(val) ELSE <<>>
             IN  IF Halts(check) THEN check
                 ELSE check \o abi_decode(c[m], cd)

\* function_dispatch: the "start" routine up to the call of the function body
function_dispatch(c, cd, val) ==
    LET pre == runtime_prelude(c, cd, val)
    IN  IF Halts(pre) THEN pre ELSE pre \o emit_function_dispatch(c, cd, val)

Init ==
    /\ contract \in Contracts
    /\ pc = "start"
    /\ cur = 0
    /\ decoded = FALSE
    /\ msgvalue = ZeroValue
    /\ calldata = <<>>
    /\ \E b \in {0, 255} :
          /\ storage = [s \in Slots |-> Fill(WordBytes, b)]
          /\ storage_string = [s \in Slots |-> IF b = 0 THEN <<>> ELSE <<b>>]
    /\ retbuf = NoRet
    /\ halt = NoHalt
    /\ calls = <<>>
    /\ last = NoOp
    /\ lastWrite = [s \in Slots |-> NoPrior]
    /\ nops = 0

\* the host invokes "start" with call data cd and value val
Start(cd, val) ==
    /\ pc = "start"
    /\ LET cs == function_dispatch(contract, cd, val)
       IN  /\ calls' = cs
           /\ calldata' = cd
           /\ msgvalue' = val
           /\ last' = Op("start", 0, 0, val, cd, <<>>, "none", 0, NoPrior)
           /\ IF Halts(cs)
              THEN /\ pc' = "halted"
                   /\ retbuf' = RetOf(cs)
                   /\ halt' = StatusOf(cs)
                   /\ cur' = 0
                   /\ decoded' = (CountPrim(cs, {"abi_decode"}) > 0)
              ELSE /\ pc' = IF Match(contract, cd) = 0 THEN "returned" ELSE "body"
                   /\ cur' = Match(contract, cd)
                   /\ decoded' = (CountPrim(cs, {"abi_decode"}) > 0)
                   /\ UNCHANGED <<retbuf, halt>>
    /\ UNCHANGED <<contract, storage, storage_string, lastWrite, nops>>

-----------------------------------------------------------------------------
(* Storage accessor *)

\* what an alloca holds before it is written
JunkWords == {Fill(WordBytes, 0), Fill(WordBytes, 170)}

Widths == {1, 2, WordBytes}

\* integers of w bytes, most significant digit first
TestValues(w) ==
    { Fill(w, 0), Fill(w, 255), [i \in 1..w |-> i],
      [i \in 1..w |-> IF i = w THEN 1 ELSE 0] }

FixedValues == UNION {TestValues(w) : w \in Widths}

\* a body operation may run: the function body is executing
InBody == pc = "body" /\ nops < MaxOps

\* set_storage without the zeroing of the scratch word
SetStorageWord_nozero(v, junk) ==
    IF Len(v) = WordBytes THEN StoreInt(v) ELSE Overlay(junk, StoreInt(v))

\* set_storage: the 32-byte buffer handed to save_storage for the value v;
\* junk is what the scratch alloca held
SetStorageWord(v, junk) ==
    IF Len(v) = WordBytes
    THEN StoreInt(v)
    ELSE Overlay(Bzero8(junk, Bzero8Words), StoreInt(v))

\* a fixed read that takes the last w bytes of the buffer
GetStorageInt_high(buf, w) == Reverse(SubSeq(buf, WordBytes - w + 1, WordBytes))

\* get_storage_int: the integer of w bytes loaded from the 32-byte buffer
GetStorageInt(buf, w) == LoadInt(buf, w)

\* storage_delete_single_slot zeroing half of the word
DeleteWord_half(junk) == Bzero8(junk, Bzero8Words - 2)

\* storage_delete_single_slot: the buffer handed to save_storage
DeleteWord(junk) == Bzero8(junk, Bzero8Words)

\* host: save_storage(key, value) keeps the 32 bytes at value
HostSave(st, slot, word) == [st EXCEPT ![slot] = SubSeq(word, 1, WordBytes)]

\* host: load_storage(key, dest) writes the 32 bytes it holds to dest
HostLoad(st, slot, dest) == Overlay(dest, st[slot])

set_storage(slot, v, junk) ==
    /\ InBody
    /\ LET word == SetStorageWord(v, junk)
           ptr == IF Len(v) = WordBytes THEN "dest" ELSE "value8"
           pre == IF Len(v) = WordBytes THEN <<>>
                  ELSE << HostCall("__bzero8", <<"value8">>, <<>>, <<Bzero8Words>>) >>
       IN  /\ calls' = calls \o pre \o
                       << HostCall("save_storage", <<"slot", ptr>>, <<word>>, <<slot>>) >>
           /\ storage' = HostSave(storage, slot, word)
           /\ lastWrite' = [lastWrite EXCEPT
                              ![slot] = [kind |-> "fixed", val |-> v, before |-> storage[slot]]]
           /\ last' = Op("set_storage", slot, Len(v), v, word, <<>>, "none",
                         Len(calls), lastWrite[slot])
    /\ nops' = nops + 1
    /\ UNCHANGED <<contract, pc, cur, decoded, msgvalue, calldata, storage_string,
                   retbuf, halt>>

\* a fixed read served without asking the host
LoadCalls_cached(slot, buf) == <<>>

\* get_storage_int: the one load_storage the read issues
LoadCalls(slot, buf) ==
    << HostCall("load_storage", <<"slot", "buf">>, <<buf>>, <<slot>>) >>

get_storage_int(slot, w, junk) ==
    /\ InBody
    /\ LET buf == HostLoad(storage, slot, junk)
       IN  /\ calls' = calls \o LoadCalls(slot, buf)
           /\ last' = Op("get_storage_int", slot, w, <<>>, GetStorageInt(buf, w), <<>>,
                         "none", Len(calls), lastWrite[slot])
    /\ nops' = nops + 1
    /\ UNCHANGED <<contract, pc, cur, decoded, msgvalue, calldata, storage,
                   storage_string, retbuf, halt, lastWrite>>

storage_delete_single_slot(slot, junk) ==
    /\ InBody
    /\ LET word == DeleteWord(junk)
       IN  /\ calls' = calls \o
                       << HostCall("__bzero8", <<"value8">>, <<>>, <<Bzero8Words>>),
                          HostCall("save_storage", <<"slot", "value8">>, <<word>>, <<slot>>) >>
           /\ storage' = HostSave(storage, slot, word)
           /\ lastWrite' = [lastWrite EXCEPT
                              ![slot] = [kind |-> "delete", val |-> <<>>,
                                         before |-> storage[slot]]]
           /\ last' = Op("storage_delete_single_slot", slot, 0, <<>>, word, <<>>, "none",
                         Len(calls), lastWrite[slot])
    /\ nops' = nops + 1
    /\ UNCHANGED <<contract, pc, cur, decoded, msgvalue, calldata, storage_string,
                   retbuf, halt>>

----
\* an unsupported lowering that goes on emitting code
unimplemented_silent == "body"

\* unimplemented!(): the compiler aborts, no program is generated
unimplemented == "fatal"

\* a lowering operation that is unimplemented on this target
Unsupported(op, slot) ==
    /\ pc' = unimplemented
    /\ last' = Op(op, slot, 0, <<>>, <<>>, <<>>, "none", Len(calls), lastWrite[slot])
    /\ nops' = nops + 1
    /\ UNCHANGED <<contract, cur, decoded, msgvalue, calldata, storage, storage_string,
                   retbuf, halt, calls, lastWrite>>

set_storage_extfunc(slot) ==
    /\ InBody
    /\ Unsupported("set_storage_extfunc", slot)

get_storage_extfunc(slot) ==
    /\ InBody
    /\ Unsupported("get_storage_extfunc", slot)

get_storage_bytes_subscript(slot) ==
    /\ InBody
    /\ Unsupported("get_storage_bytes_subscript", slot)

set_storage_bytes_subscript(slot) ==
    /\ InBody
    /\ Unsupported("set_storage_bytes_subscript", slot)

storage_push(slot) ==
    /\ InBody
    /\ Unsupported("storage_push", slot)

storage_pop(slot) ==
    /\ InBody
    /\ Unsupported("storage_pop", slot)

----
\* byte sequences of length at most n over the bytes B
RECURSIVE SeqsUpTo(_, _)
SeqsUpTo(B, n) ==
    IF n = 0 THEN {<<>>}
    ELSE LET shorter == SeqsUpTo(B, n - 1)
         IN  shorter \cup {Append(s, b) : s \in shorter, b \in B}

StringBytes == {0, 7}

Strings == SeqsUpTo(StringBytes, MaxStrLen)

\* a length-prefixed buffer: struct.vector {len, size, data}
Vector(len, size, data) == [len |-> len, size |-> size, data |-> data]

vector_len(v) == v.len

vector_bytes(v) == v.data

\* size of the header of struct.vector: two 32-bit fields
VectorHeader == 8

\* set_storage_string handing over one byte less
SaveStringLen_short(v) == IF vector_len(v) > 0 THEN vector_len(v) - 1 ELSE 0

\* set_storage_string: the length handed to save_storage_string
SaveStringLen(v) == vector_len(v)

\* host: save_storage_string(key, value, length) keeps length bytes from value
HostSaveString(st, slot, data, len) == [st EXCEPT ![slot] = SubSeq(data, 1, len)]

\* a buffer whose capacity field is left at zero
LoadedString_nosize(length, bytes) ==
    [len |-> length, size |-> 0, data |-> [i \in 1..length |-> 170]]

\* get_storage_string: the buffer built for the queried length and the loaded bytes
LoadedString(length, bytes) ==
    Vector(length, length, Overlay(Fill(length, 170), bytes))

\* a buffer that holds the bytes b in a data region of cap bytes
StringBuffer(b, cap) ==
    Vector(Len(b), cap, [i \in 1..cap |-> IF i <= Len(b) THEN b[i] ELSE 204])

set_storage_string(slot, v) ==
    /\ InBody
    /\ LET len == SaveStringLen(v)
           data == vector_bytes(v)
       IN  /\ calls' = calls \o
                       << HostCall("save_storage_string", <<"slot", "data">>,
                                   <<data>>, <<slot, len>>) >>
           /\ storage_string' = HostSaveString(storage_string, slot, data, len)
           /\ lastWrite' = [lastWrite EXCEPT
                              ![slot] = [kind |-> "string",
                                         val |-> SubSeq(v.data, 1, v.len),
                                         before |-> storage_string[slot]]]
           /\ last' = Op("set_storage_string", slot, 0, v.data, <<>>, <<len>>, "none",
                         Len(calls), lastWrite[slot])
    /\ nops' = nops + 1
    /\ UNCHANGED <<contract, pc, cur, decoded, msgvalue, calldata, storage,
                   retbuf, halt>>

get_storage_string(slot) ==
    /\ InBody
    /\ LET length == Len(storage_string[slot])
           v == LoadedString(length, storage_string[slot])
       IN  /\ calls' = calls \o
                       << HostCall("get_storage_string_size", <<"slot">>, <<>>,
                                   <<slot, length>>),
                          HostCall("__malloc", <<"string">>, <<>>, <<length + VectorHeader>>),
                          HostCall("load_storage_string", <<"slot", "string.data">>,
                                   <<storage_string[slot]>>, <<slot>>) >>
           /\ last' = Op("get_storage_string", slot, 0, <<>>, v.data, <<v.len, v.size>>,
                         "none", Len(calls), lastWrite[slot])
    /\ nops' = nops + 1
    /\ UNCHANGED <<contract, pc, cur, decoded, msgvalue, calldata, storage,
                   storage_string, retbuf, halt, lastWrite>>

-----------------------------------------------------------------------------
(* External call and creation marshaller *)

CallTys == {"Regular", "Static", "Delegate"}

\* the status the host returns from a call, a transfer or a creation
Statuses == {0, 1, 2}

GasValue == <<0, 0, 0, 0, 0, 0, 19, 136>>

\* the word a callee leaves in a slot it writes
CalleeWord == Fill(WordBytes, 85)

\* a comparison that takes every status for a success
IsSuccess_always(ret) == TRUE

\* the comparison of the returned status with zero
IsSuccess(ret) == ret = 0

\* an external call that ignores its kind
CallPrimitive_regular(callty) == "invoke_contract"

\* the host primitive an external call invokes
CallPrimitive(callty) ==
    CASE callty = "Regular" -> "invoke_contract"
      [] callty = "Static" -> "invoke_static_contract"
      [] callty = "Delegate" -> "invoke_delegate_contract"

\* external_call, value_transfer: the value is stored into one scratch word,
\* reversed into a second one, and the second one is handed to the host
ConvertedValue(value) ==
    [stored |-> StoreInt(value),
     ptr |-> "value_le_ptr",
     bytes |-> BeNtoleN(StoreInt(value), ValueLen)]

\* create_contract: the value is stored into one scratch word, which is handed
\* to the host
CreateValue(value) ==
    [stored |-> StoreInt(value), ptr |-> "value_ptr", bytes |-> StoreInt(value)]

\* the calls of the value conversion
ConversionCalls(cv) ==
    IF cv.ptr = "value_le_ptr"
    THEN << HostCall("__be32toleN", <<"value_be_ptr", "value_le_ptr">>,
                     <<cv.stored, cv.bytes>>, <<ValueLen>>) >>
    ELSE <<>>

\* a call site that goes on whatever the status
AfterCall_continue(flagged, ok) == <<>>

\* the branch after a call: with a success flag the flag is set and execution
\* goes on; without one a failure reverts with empty data
AfterCall(flagged, ok) ==
    IF flagged \/ ok THEN <<>> ELSE assert_failure("null", <<>>, 0)

\* the effect of a sequence of calls of a body operation on pc and the host's
\* return buffer and halt status
Finish(cs) ==
    IF Halts(cs)
    THEN /\ pc' = "halted"
         /\ retbuf' = RetOf(cs)
         /\ halt' = StatusOf(cs)
    ELSE UNCHANGED <<pc, retbuf, halt>>

\* the callee of a call may write a slot of this contract (m = 0: none)
CalleeWrites(m) ==
    IF m = 0
    THEN UNCHANGED <<storage, lastWrite>>
    ELSE /\ storage' = HostSave(storage, m, CalleeWord)
         /\ lastWrite' = [lastWrite EXCEPT
                            ![m] = [kind |-> "callee", val |-> <<>>,
                                    before |-> storage[m]]]

FlagOf(flagged, ok) == IF ~flagged THEN "none" ELSE IF ok THEN "true" ELSE "false"

external_call(flagged, payload, gas, value, callty, status, m) ==
    /\ InBody
    /\ LET cv == ConvertedValue(value)
           ok == IsSuccess(status)
           cs == ConversionCalls(cv) \o
                 << HostCall(CallPrimitive(callty),
                             <<"address", "payload", cv.ptr, "gas_ptr">>,
                             <<payload, cv.bytes, StoreInt(gas)>>,
                             <<Len(payload), status>>) >> \o
                 AfterCall(flagged, ok)
       IN  /\ calls' = calls \o cs
           /\ last' = Op("external_call", 0, 0, value, cv.bytes, <<status>>,
                         FlagOf(flagged, ok), Len(calls),
                         [kind |-> callty, val |-> payload, before |-> gas])
           /\ Finish(cs)
    /\ CalleeWrites(m)
    /\ nops' = nops + 1
    /\ UNCHANGED <<contract, cur, decoded, msgvalue, calldata, storage_string>>

value_transfer(flagged, value, status) ==
    /\ InBody
    /\ LET cv == ConvertedValue(value)
           ok == IsSuccess(status)
           cs == ConversionCalls(cv) \o
                 << HostCall("transfer", <<"address", cv.ptr>>, <<cv.bytes>>,
                             <<0, status>>) >> \o
                 AfterCall(flagged, ok)
       IN  /\ calls' = calls \o cs
           /\ last' = Op("value_transfer", 0, 0, value, cv.bytes, <<status>>,
                         FlagOf(flagged, ok), Len(calls), NoPrior)
           /\ Finish(cs)
    /\ nops' = nops + 1
    /\ UNCHANGED <<contract, cur, decoded, msgvalue, calldata, storage,
                   storage_string, lastWrite>>

----
\* the deployable code blob of the contract to create
CodeBlob == <<0, 97, 115, 109>>

\* no value or no salt given at the creation site
None == <<>>

\* the types of the generic encoder: a packed 32-bit integer, a 256-bit word
Uint32 == "uint32"
Uint256 == "uint256"

\* the parameter types of a list of 256-bit arguments
ParamTys(args) == [i \in 1..Len(args) |-> Uint256]

\* a 32-bit number as four bytes, most significant first
SelectorBytes(n) ==
    << n \div 16777216, (n \div 65536) % 256, (n \div 256) % 256, n % 256 >>

\* a 256-bit argument as the 32-byte word of the encoding
EncodeWord(v) == Reverse(StoreInt(v))

RECURSIVE Flatten(_)
Flatten(ss) == IF ss = <<>> THEN <<>> ELSE Head(ss) \o Flatten(Tail(ss))

Min(a, b) == IF a < b THEN a ELSE b

\* the generic encoder encodes one value per type: the packed values first
PackedCount(packed, tys) == Min(Len(packed), Len(tys))

ArgCount(packed, args, tys) == Min(Len(args), Len(tys) - PackedCount(packed, tys))

\* EncoderBuilder.encoded_length
encoded_length(packed, args, tys) ==
    SelectorLen * PackedCount(packed, tys) + WordBytes * ArgCount(packed, args, tys)

\* EncoderBuilder.finish: the bytes written at the output position
finish(packed, args, tys) ==
    Flatten([i \in 1..PackedCount(packed, tys) |-> SelectorBytes(packed[i])]) \o
    Flatten([i \in 1..ArgCount(packed, args, tys) |-> EncodeWord(args[i])])

\* encode sizing the buffer without the constant prefix
EncodeLength_noprefix(enclen, constant) == enclen

\* encode: the size of the one buffer it allocates
EncodeLength(enclen, constant) == enclen + Len(constant)

\* encode: one buffer of the constant prefix followed by the encoded payload
encode(constant, packed, args, tys) ==
    LET length == EncodeLength(encoded_length(packed, args, tys), constant)
    IN  [calls |-> << HostCall("__malloc", <<"encoded_data">>, <<>>, <<length>>) >> \o
                   (IF constant = <<>> THEN <<>>
                    ELSE << HostCall("__memcpy", <<"encoded_data", "code">>,
                                     <<constant>>, <<Len(constant)>>) >>),
         data |-> constant \o finish(packed, args, tys),
         len |-> length]

\* abi_encode passing no selector on to the encoder
AbiPacked_none(selector) == <<>>

\* abi_encode: the selector, when there is one, is the one packed value
AbiPacked(selector) == IF selector /= <<>> THEN <<selector[1]>> ELSE <<>>

\* abi_encode: the type of the selector goes in front of the argument types
AbiTys(selector, args) ==
    (IF selector /= <<>> THEN <<Uint32>> ELSE <<>>) \o ParamTys(args)

abi_encode(selector, args) ==
    /\ InBody
    /\ LET enc == encode(<<>>, AbiPacked(selector), args, AbiTys(selector, args))
       IN  /\ calls' = calls \o enc.calls
           /\ last' = Op("abi_encode", 0, Len(selector), selector, enc.data, <<enc.len>>,
                         "none", Len(calls),
                         [kind |-> "abi", val |-> <<>>, before |-> args])
    /\ nops' = nops + 1
    /\ UNCHANGED <<contract, pc, cur, decoded, msgvalue, calldata, storage,
                   storage_string, retbuf, halt, lastWrite>>

\* create_contract always invoking the plain primitive
CreatePrimitive_plain(salt) == "create"

\* create_contract: the host primitive chosen by the presence of a salt
CreatePrimitive(salt) == IF salt /= None THEN "create2" ELSE "create"

\* create_contract: the pointers handed to the host primitive
CreatePointers(salt, cv) ==
    IF salt /= None
    THEN <<cv.ptr, "input", "salt_ptr", "address">>
    ELSE <<cv.ptr, "input", "address">>

\* create_contract: the value compared with zero after the call.  The status
\* the primitive returns is bound in the branch that calls it and goes out of
\* scope with it; the comparison reads the outer binding, the constant zero.
CreateRet(status) == 0

\* create_contract: the parameter types of the constructor, none without one
ConstructorTys(constructor_no, args) ==
    IF constructor_no /= None THEN ParamTys(args) ELSE <<>>

create_contract(flagged, constructor_no, args, value, salt, status) ==
    /\ InBody
    /\ LET enc == encode(CodeBlob, <<>>, args, ConstructorTys(constructor_no, args))
           cv == CreateValue(IF value = None THEN ZeroValue ELSE value)
           ok == IsSuccess(CreateRet(status))
           cs == enc.calls \o ConversionCalls(cv) \o
                 << HostCall(CreatePrimitive(salt), CreatePointers(salt, cv),
                             IF salt /= None
                             THEN <<cv.bytes, enc.data, StoreInt(salt)>>
                             ELSE <<cv.bytes, enc.data>>,
                             <<enc.len, status>>) >> \o
                 AfterCall(flagged, ok)
       IN  /\ calls' = calls \o cs
           /\ last' = Op("create_contract", 0, Len(constructor_no),
                         IF value = None THEN ZeroValue ELSE value, cv.bytes,
                         <<status>>, FlagOf(flagged, ok), Len(calls),
                         [kind |-> IF salt /= None THEN "salt" ELSE "nosalt",
                          val |-> salt, before |-> args])
           /\ Finish(cs)
    /\ nops' = nops + 1
    /\ UNCHANGED <<contract, cur, decoded, msgvalue, calldata, storage,
                   storage_string, lastWrite>>

-----------------------------------------------------------------------------
(* Hashing *)

HashTys == {"Keccak256", "Ripemd160", "Sha256"}

HashName(hash) ==
    CASE hash = "Keccak256" -> "crypto_keccak256"
      [] hash = "Ripemd160" -> "crypto_ripemd160"
      [] hash = "Sha256" -> "crypto_sha256"

HashLen(hash) ==
    CASE hash = "Keccak256" -> 32
      [] hash = "Ripemd160" -> 20
      [] hash = "Sha256" -> 32

HashInputs == {<<>>, <<97, 98, 99>>}

\* host: the digest the primitive writes for an input, n bytes
HostDigest(name, input, n) ==
    [i \in 1..n |-> (7 * i + 31 * Len(input) + Len(name)) % 256]

\* hash delivering the digest as the host wrote it
HashResult_raw(res, hashlen) == SubSeq(res, 1, hashlen)

\* hash: the bytes of the result after the digest was reversed into it
HashResult(res, hashlen) == BeNtoleN(res, hashlen)

hash(ty, input) ==
    /\ InBody
    /\ LET n == HashLen(ty)
           res == HostDigest(HashName(ty), input, n)
           temp == HashResult(res, n)
       IN  /\ calls' = calls \o
                       << HostCall(HashName(ty), <<"input", "res">>, <<input, res>>,
                                   <<Len(input)>>),
                          HostCall("__beNtoleN", <<"res", "temp">>, <<res, temp>>, <<n>>) >>
           /\ last' = Op("hash", 0, n, res, temp, <<>>, "none", Len(calls),
                         [kind |-> ty, val |-> input, before |-> <<>>])
    /\ nops' = nops + 1
    /\ UNCHANGED <<contract, pc, cur, decoded, msgvalue, calldata, storage,
                   storage_string, retbuf, halt, lastWrite>>

keccak256_hash(src) ==
    /\ InBody
    /\ LET dest == HostDigest("crypto_keccak256", src, WordBytes)
       IN  /\ calls' = calls \o
                       << HostCall("crypto_keccak256", <<"src", "dest">>, <<src, dest>>,
                                   <<Len(src)>>) >>
           /\ last' = Op("keccak256_hash", 0, WordBytes, dest, dest, <<>>, "none",
                         Len(calls), [kind |-> "Keccak256", val |-> src, before |-> <<>>])
    /\ nops' = nops + 1
    /\ UNCHANGED <<contract, pc, cur, decoded, msgvalue, calldata, storage,
                   storage_string, retbuf, halt, lastWrite>>

-----------------------------------------------------------------------------
(* Return data, context builtins and events *)

\* return_data: size query, allocation of header plus length, header, copy of
\* the range [0, length) of the host's return data rd into the data region
return_data(rd) ==
    /\ InBody
    /\ LET length == Len(rd)
           v == LoadedString(length, rd)
       IN  /\ calls' = calls \o
                       << HostCall("get_return_size", <<>>, <<>>, <<length>>),
                          HostCall("__malloc", <<"string">>, <<>>, <<length + VectorHeader>>),
                          HostCall("copy_return_value", <<"string.data">>, <<rd>>,
                                   <<0, length>>) >>
           /\ last' = Op("return_data", 0, 0, rd, v.data, <<v.len, v.size>>,
                         "none", Len(calls), NoPrior)
    /\ nops' = nops + 1
    /\ UNCHANGED <<contract, pc, cur, decoded, msgvalue, calldata, storage,
                   storage_string, retbuf, halt, lastWrite>>

----
\* the builtins with a lowering of their own
SingleValueBuiltins ==
    {"BlockNumber", "GasLimit", "Timestamp", "ChainId", "BlockDifficulty",
     "BlockCoinbase", "Gasleft", "Sender", "Value", "Origin", "Gasprice", "GetAddress"}

InputBuiltins == {"BlockHash", "Balance"}

\* a builtin without a lowering in this backend
OtherBuiltin == "Other"

Builtins == SingleValueBuiltins \cup InputBuiltins \cup {"Ecrecover", OtherBuiltin}

\* the host primitive of a builtin
BuiltinPrimitive(b) ==
    CASE b = "BlockNumber" -> "get_block_number"
      [] b = "GasLimit" -> "get_block_gas_limit"
      [] b = "Timestamp" -> "get_block_timestamp"
      [] b = "ChainId" -> "get_chain_id"
      [] b = "BlockDifficulty" -> "get_block_difficulty"
      [] b = "BlockCoinbase" -> "get_block_coinbase_address"
      [] b = "Gasleft" -> "get_gas_left"
      [] b = "Sender" -> "get_sender"
      [] b = "Value" -> "get_msgvalue"
      [] b = "Origin" -> "get_tx_origin"
      [] b = "Gasprice" -> "get_tx_gas_price"
      [] b = "GetAddress" -> "get_address"
      [] b = "BlockHash" -> "get_block_hash"
      [] b = "Balance" -> "get_external_balance"
      [] b = "Ecrecover" -> "crypto_recover"

\* the name of the scratch buffer that receives the result
BuiltinName(b) ==
    CASE b = "BlockNumber" -> "block_number"
      [] b = "GasLimit" -> "gas_limit"
      [] b = "Timestamp" -> "time_stamp"
      [] b = "ChainId" -> "chain_id"
      [] b = "BlockDifficulty" -> "block_difficulty"
      [] b = "BlockCoinbase" -> "coinbase"
      [] b = "Gasleft" -> "gas_left"
      [] b = "Sender" -> "caller"
      [] b = "Value" -> "value"
      [] b = "Origin" -> "origin"
      [] b = "Gasprice" -> "gas_price"
      [] b = "GetAddress" -> "self_address"
      [] b = "BlockHash" -> "block_hash"
      [] b = "Balance" -> "balance"
      [] b = "Ecrecover" -> "result"

\* every result buffer a full word
BuiltinWidth_word(b) == WordBytes

\* the width of the result buffer, in bytes
BuiltinWidth(b) ==
    CASE b \in {"BlockNumber", "GasLimit", "Timestamp", "ChainId", "Gasleft"} -> GasLen
      [] b \in {"BlockCoinbase", "Sender", "Origin", "GetAddress", "Ecrecover"} -> AddressLen
      [] b \in {"Value", "Gasprice", "Balance"} -> ValueLen
      [] b \in {"BlockDifficulty", "BlockHash"} -> WordBytes

\* the width of the scratch buffer of the extra input, in bytes
BuiltinInputWidth(b) ==
    CASE b = "BlockHash" -> GasLen
      [] b = "Balance" -> AddressLen

\* the name of the scratch buffer of the extra input
BuiltinInputName(b) ==
    CASE b = "BlockHash" -> "block_number"
      [] b = "Balance" -> "address"

\* host: what a context getter writes into a result buffer of n bytes
HostContext(name, n) ==
    IF name = "get_msgvalue" THEN StoreInt(msgvalue)
    ELSE [i \in 1..n |-> (11 * i + 3 * Len(name)) % 256]

\* the argument of a builtin with an extra input, an integer of n bytes
BuiltinArg(n) == [i \in 1..n |-> (i + 64) % 256]

\* the call instructions of a builtin: pointers, staged inputs and result
BuiltinCalls(b) ==
    LET res == HostContext(BuiltinPrimitive(b), BuiltinWidth(b))
    IN  CASE b \in SingleValueBuiltins ->
               << HostCall(BuiltinPrimitive(b), <<BuiltinName(b)>>, <<res>>, <<>>) >>
          [] b \in InputBuiltins ->
               << HostCall(BuiltinPrimitive(b), <<BuiltinInputName(b), BuiltinName(b)>>,
                           <<StoreInt(BuiltinArg(BuiltinInputWidth(b))), res>>, <<>>) >>
          [] b = "Ecrecover" ->
               << HostCall("crypto_recover", <<"hash", "r", "s", "result">>,
                           <<StoreInt(AscValue), StoreInt(LowValue), StoreInt(HighValue),
                             res>>, <<27>>) >>

\* builtin: one host call on scratch buffers, the result loaded from the last
\* one; a builtin without a lowering aborts the compiler
builtin(b) ==
    /\ InBody
    /\ IF b = OtherBuiltin
       THEN /\ pc' = unimplemented
            /\ calls' = calls
            /\ last' = Op("builtin", 0, 0, <<>>, <<>>, <<>>, "none", Len(calls),
                          [kind |-> b, val |-> <<>>, before |-> <<>>])
       ELSE LET cs == BuiltinCalls(b)
                buf == cs[1].data[Len(cs[1].data)]
            IN  /\ pc' = pc
                /\ calls' = calls \o cs
                /\ last' = Op("builtin", 0, BuiltinWidth(b),
                              IF b \in InputBuiltins
                              THEN BuiltinArg(BuiltinInputWidth(b)) ELSE <<>>,
                              LoadInt(buf, BuiltinWidth(b)), <<>>, "none", Len(calls),
                              [kind |-> b, val |-> <<>>, before |-> buf])
    /\ nops' = nops + 1
    /\ UNCHANGED <<contract, cur, decoded, msgvalue, calldata, storage, storage_string,
                   retbuf, halt, lastWrite>>

----
\* an event lowering that hands the topics to the host as well
WriteLogCalls_topics(event_no, data, topics) ==
    << HostCall("write_log", <<"data", "topics">>, <<data, topics>>,
                <<Len(data), event_no>>) >>

\* send_event: write_log(data, data_len); event number and topics are unused
WriteLogCalls(event_no, data, topics) ==
    << HostCall("write_log", <<"data">>, <<data>>, <<Len(data)>>) >>

send_event(event_no, data, topics) ==
    /\ InBody
    /\ calls' = calls \o WriteLogCalls(event_no, data, topics)
    /\ last' = Op("send_event", event_no, 0, data, <<>>, topics, "none", Len(calls),
                  NoPrior)
    /\ nops' = nops + 1
    /\ UNCHANGED <<contract, pc, cur, decoded, msgvalue, calldata, storage,
                   storage_string, retbuf, halt, lastWrite>>

-----------------------------------------------------------------------------
(* Self-destruction and printing *)

TestAddress == <<222, 173, 190, 239>>

ZeroAddress == <<0, 0, 0, 0>>

\* a lowering operation that emits the calls cs: a name the module does not
\* hold makes get_function(..).unwrap() abort the compiler, and no program is
\* generated; otherwise the calls execute and the body goes on
Lookup(op, val, cs) ==
    /\ IF Missing(cs) = {}
       THEN /\ calls' = calls \o cs
            /\ pc' = pc
       ELSE /\ calls' = calls
            /\ pc' = "fatal"
    /\ last' = Op(op, 0, 0, val, <<>>, <<>>,
                  IF Missing(cs) = {} THEN "none" ELSE "missing", Len(calls),
                  [kind |-> "lookup", val |-> <<>>,
                   before |-> [i \in 1..Len(cs) |-> cs[i].prim]])
    /\ nops' = nops + 1
    /\ UNCHANGED <<contract, cur, decoded, msgvalue, calldata, storage, storage_string,
                   retbuf, halt, lastWrite>>

\* selfdestruct: the address is stored and handed to "selfDestruct"
selfdestruct(addr) ==
    /\ InBody
    /\ Lookup("selfdestruct", addr,
              << HostCall("selfDestruct", <<"address">>, <<StoreInt(addr)>>, <<>>) >>)

\* print: the string is handed to "printMem"
print(string) ==
    /\ InBody
    /\ Lookup("print", string,
              << HostCall("printMem", <<"string_ptr">>, <<string>>, <<Len(string)>>) >>)

-----------------------------------------------------------------------------
(* Termination of the function body *)

ReturnDatas == {<<>>, ArgWord}

\* the codes a function body hands to return_code: success and two failures
ReturnCodes == {0, 1, 2}

\* a body operation that halts: its calls end in set_return; system_halt
Terminate(op, data, cs) ==
    /\ calls' = calls \o cs
    /\ last' = Op(op, 0, 0, data, <<>>, <<>>, "none", Len(calls), NoPrior)
    /\ Finish(cs)
    /\ UNCHANGED <<contract, cur, decoded, msgvalue, calldata, storage,
                   storage_string, lastWrite, nops>>

ReturnAbi(data) ==
    /\ pc = "body"
    /\ Terminate("return_abi", data, return_abi("data", data, Len(data)))

ReturnEmptyAbi ==
    /\ pc = "body"
    /\ Terminate("return_empty_abi", <<>>, return_empty_abi)

AssertFailure(data) ==
    /\ pc = "body"
    /\ Terminate("assert_failure", data,
                 assert_failure(IF data = <<>> THEN "null" ELSE "data", data, Len(data)))

ReturnCode(code) ==
    /\ pc = "body"
    /\ Terminate("return_code", <<code>>, return_code(code))

-----------------------------------------------------------------------------
(* Specifications *)

Contract1 == <<Entry(Sel1, TRUE, 0), Entry(Sel2, FALSE, 1)>>

\* an invocation of the payable function of Contract1 without value
EnterBody == Start(Sel1, ZeroValue)

InitContract1 == Init /\ contract = Contract1

\* the whole machine on few inputs
Next ==
    \/ \E cd \in {Sel1, Sel2, Sel2 \o ArgWord, SelNone}, val \in {ZeroValue, LowValue} :
          Start(cd, val)
    \/ set_storage(1, <<1, 2>>, Fill(WordBytes, 170))
    \/ get_storage_int(1, 2, Fill(WordBytes, 170))
    \/ storage_delete_single_slot(1, Fill(WordBytes, 170))
    \/ set_storage_string(1, StringBuffer(<<7>>, 1))
    \/ get_storage_string(1)
    \/ \E flagged \in BOOLEAN, status \in {0, 1} :
          external_call(flagged, <<>>, GasValue, AscValue, "Regular", status, 0)
    \/ \E status \in {0, 1} : value_transfer(FALSE, AscValue, status)
    \/ create_contract(FALSE, None, <<>>, AscValue, None, 1)
    \/ hash("Keccak256", <<97, 98, 99>>)
    \/ keccak256_hash(<<97, 98, 99>>)
    \/ abi_encode(<<SelectorOf(Sel1)>>, <<ArgWord>>)
    \/ set_storage_extfunc(1)
    \/ get_storage_extfunc(1)
    \/ get_storage_bytes_subscript(1)
    \/ set_storage_bytes_subscript(1)
    \/ storage_push(1)
    \/ storage_pop(1)
    \/ selfdestruct(TestAddress)
    \/ print(<<97, 98, 99>>)
    \/ return_data(ArgWord)
    \/ builtin("Value")
    \/ send_event(1, <<97, 98, 99>>, <<Sel1>>)
    \/ ReturnAbi(ArgWord)
    \/ ReturnEmptyAbi
    \/ AssertFailure(<<>>)
    \/ ReturnCode(0)

Spec == Init /\ [][Next]_vars

\* an invocation runs to completion: no suspension points, every host
\* primitive returns
SpecLive == Init /\ [][Next]_vars /\ WF_vars(Next)

\* fixed-width storage on many values
NextStorage ==
    \/ EnterBody
    \/ \E slot \in Slots, v \in FixedValues, junk \in JunkWords :
          set_storage(slot, v, junk)
    \/ \E slot \in Slots, w \in Widths, junk \in JunkWords :
          get_storage_int(slot, w, junk)
    \/ \E slot \in Slots, junk \in JunkWords : storage_delete_single_slot(slot, junk)
    \/ \E flagged \in BOOLEAN, m \in {0} \cup Slots :
          external_call(flagged, <<>>, GasValue, ZeroValue, "Regular", 0, m)
    \/ ReturnEmptyAbi

SpecStorage == InitContract1 /\ [][NextStorage]_vars

\* string storage on every byte sequence up to MaxStrLen
NextString ==
    \/ EnterBody
    \/ \E slot \in Slots, b \in Strings, cap \in {0, MaxStrLen} :
          set_storage_string(slot, StringBuffer(b, IF cap = 0 THEN Len(b) ELSE cap))
    \/ \E slot \in Slots : get_storage_string(slot)
    \/ \E slot \in Slots, junk \in JunkWords : storage_delete_single_slot(slot, junk)
    \/ ReturnEmptyAbi

SpecString == InitContract1 /\ [][NextString]_vars

\* the entry routine on every dispatch table, call data and value
NextDispatch ==
    \/ \E cd \in CallDatas, val \in MsgValues : Start(cd, val)
    \/ \E ty \in HashTys : hash(ty, <<>>)
    \/ \E data \in ReturnDatas : ReturnAbi(data)
    \/ ReturnEmptyAbi
    \/ \E data \in ReturnDatas : AssertFailure(data)
    \/ \E code \in ReturnCodes : ReturnCode(code)

SpecDispatch == Init /\ [][NextDispatch]_vars

\* calls, transfers and creations on every status
NextCall ==
    \/ EnterBody
    \/ \E flagged \in BOOLEAN, callty \in CallTys, status \in Statuses :
          external_call(flagged, Sel1 \o ArgWord, GasValue, AscValue, callty, status, 0)
    \/ \E flagged \in BOOLEAN, status \in Statuses :
          value_transfer(flagged, AscValue, status)
    \/ \E flagged \in BOOLEAN, value \in {None, AscValue}, salt \in {None, HighValue},
          status \in Statuses :
          create_contract(flagged, <<1>>, <<ArgWord>>, value, salt, status)
    \/ ReturnEmptyAbi

SpecCall == InitContract1 /\ [][NextCall]_vars

\* hashing on every algorithm
NextHash ==
    \/ EnterBody
    \/ \E ty \in HashTys, input \in HashInputs : hash(ty, input)
    \/ \E src \in HashInputs : keccak256_hash(src)
    \/ \E slot \in Slots, v \in {<<1, 2>>, AscValue}, junk \in JunkWords :
          set_storage(slot, v, junk)
    \/ ReturnEmptyAbi

SpecHash == InitContract1 /\ [][NextHash]_vars

\* storage operations, string and fixed, around calls whose callee writes
NextOrder ==
    \/ EnterBody
    \/ \E slot \in Slots, v \in {<<1, 2>>, AscValue} :
          set_storage(slot, v, Fill(WordBytes, 170))
    \/ \E slot \in Slots, w \in {2, WordBytes} :
          get_storage_int(slot, w, Fill(WordBytes, 170))
    \/ \E slot \in Slots : storage_delete_single_slot(slot, Fill(WordBytes, 170))
    \/ \E slot \in Slots : set_storage_string(slot, StringBuffer(<<7, 0>>, MaxStrLen))
    \/ \E slot \in Slots : get_storage_string(slot)
    \/ \E m \in {0} \cup Slots :
          external_call(TRUE, <<>>, GasValue, ZeroValue, "Regular", 0, m)
    \/ ReturnEmptyAbi

SpecOrder == InitContract1 /\ [][NextOrder]_vars

\* encoding with and without a selector, with and without a constant prefix
NextEncode ==
    \/ EnterBody
    \/ \E selector \in {None, <<SelectorOf(Sel1)>>, <<SelectorOf(Sel2)>>},
          args \in {<<>>, <<ArgWord>>, <<LowValue, ArgWord>>} :
          abi_encode(selector, args)
    \/ \E constructor_no \in {None, <<1>>}, args \in {<<>>, <<ArgWord>>},
          salt \in {None, HighValue} :
          create_contract(TRUE, constructor_no, args, None, salt, 0)
    \/ \E data \in ReturnDatas : ReturnAbi(data)

SpecEncode == InitContract1 /\ [][NextEncode]_vars

\* variable-length reads: stored strings and the return data of a call
NextRead ==
    \/ EnterBody
    \/ \E slot \in Slots, b \in {<<>>, <<7>>, <<7, 0>>} :
          set_storage_string(slot, StringBuffer(b, MaxStrLen))
    \/ \E slot \in Slots : get_storage_string(slot)
    \/ \E callty \in CallTys, status \in {0, 1} :
          external_call(TRUE, Sel1, GasValue, ZeroValue, callty, status, 0)
    \/ \E rd \in {<<>>, <<9>>, ArgWord} : return_data(rd)
    \/ \E data \in ReturnDatas : ReturnAbi(data)

SpecRead == InitContract1 /\ [][NextRead]_vars

\* context builtins and events in a body entered with and without value
NextBuiltin ==
    \/ \E val \in {ZeroValue, LowValue} : Start(Sel1, val)
    \/ \E b \in Builtins : builtin(b)
    \/ \E event_no \in {0, 1}, data \in HashInputs, topics \in {<<>>, <<Sel1>>, <<Sel1, Sel2>>} :
          send_event(event_no, data, topics)
    \/ ReturnEmptyAbi

SpecBuiltin == InitContract1 /\ [][NextBuiltin]_vars

\* the lowering operations this target does not support, and the ones that
\* look up a name
NextLimits ==
    \/ \E cd \in {Sel1, Sel2 \o ArgWord} : Start(cd, ZeroValue)
    \/ \E slot \in Slots, v \in {<<1, 2>>, AscValue} :
          set_storage(slot, v, Fill(WordBytes, 170))
    \/ \E slot \in Slots : get_storage_string(slot)
    \/ \E slot \in Slots : set_storage_extfunc(slot)
    \/ \E slot \in Slots : get_storage_extfunc(slot)
    \/ \E slot \in Slots : get_storage_bytes_subscript(slot)
    \/ \E slot \in Slots : set_storage_bytes_subscript(slot)
    \/ \E slot \in Slots : storage_push(slot)
    \/ \E slot \in Slots : storage_pop(slot)
    \/ \E addr \in {TestAddress, ZeroAddress} : selfdestruct(addr)
    \/ \E string \in HashInputs : print(string)
    \/ \E ty \in HashTys : hash(ty, <<97, 98, 99>>)
    \/ ReturnEmptyAbi

SpecLimits == Init /\ [][NextLimits]_vars

-----------------------------------------------------------------------------
(* Properties *)

EmptyRevert == [set |-> TRUE, ptr |-> "null", data |-> <<>>, len |-> 0]

\* the host primitive invocations of the operation executed last
LastHostCalls == HostOnly(CallsFrom(last.from))

\* C1: a fixed read of width w that follows a fixed write of a value v of
\* width w to the same slot, with no write to the slot in between, returns v;
\* and as long as no other write reaches the slot, every byte of the 32-byte
\* word the host holds for it that v does not occupy is zero.
C1_FixedRoundTrip ==
    /\ (last.op = "get_storage_int" /\ last.prior.kind = "fixed"
          /\ Len(last.prior.val) = last.width)
       => last.out = last.prior.val
    /\ \A s \in Slots :
          lastWrite[s].kind = "fixed"
          => /\ Len(storage[s]) = WordBytes
             /\ \A i \in (Len(lastWrite[s].val) + 1)..WordBytes : storage[s][i] = 0

\* a two-byte value written over a slot that held 0xff bytes is read back
C1_Witness ==
    /\ last.op = "get_storage_int"
    /\ last.prior.kind = "fixed"
    /\ last.prior.before = Fill(WordBytes, 255)
    /\ last.width = 2
    /\ last.out = <<1, 2>>

\* C2: after storage_delete_single_slot on a slot, a fixed read of the slot at
\* any width returns 0; the delete invokes save_storage once, with a 32-byte
\* word of zeros, and no other host primitive.
C2_DeleteThenRead ==
    /\ (last.op = "get_storage_int" /\ last.prior.kind = "delete")
       => /\ Len(last.out) = last.width
          /\ IsZero(last.out)
    /\ last.op = "storage_delete_single_slot"
       => LastHostCalls =
            << HostCall("save_storage", <<"slot", "value8">>,
                        <<Fill(WordBytes, 0)>>, <<last.slot>>) >>

\* a slot that held 0xff bytes is deleted and read at full width
C2_Witness ==
    /\ last.op = "get_storage_int"
    /\ last.prior.kind = "delete"
    /\ last.prior.before = Fill(WordBytes, 255)
    /\ last.width = WordBytes
    /\ IsZero(last.out)

\* C3: get_storage_string of a slot that follows set_storage_string of the
\* bytes b to the slot, with no write to the slot in between, yields a buffer
\* whose length field is |b| and whose data bytes are b.
C3_StringRoundTrip ==
    (last.op = "get_storage_string" /\ last.prior.kind = "string")
    => /\ last.hdr[1] = Len(last.prior.val)
       /\ last.out = last.prior.val

\* the bytes <<7, 0>> are written and read back
C3_Witness ==
    /\ last.op = "get_storage_string"
    /\ last.prior.kind = "string"
    /\ last.prior.val = <<7, 0>>
    /\ last.out = <<7, 0>>

\* the empty byte sequence is written over a stored one and read back
C3_WitnessEmpty ==
    /\ last.op = "get_storage_string"
    /\ last.prior.kind = "string"
    /\ last.prior.val = <<>>
    /\ last.prior.before /= <<>>
    /\ last.hdr = <<0, 0>>

\* the original statement of C4: a matched non-payable function with value
\* reverts with empty data before decoding; with zero value, and for a payable
\* function with any value, the function body runs.
C4_Original ==
    LET m == Match(contract, calldata)
    IN  (pc /= "start" /\ m /= 0)
        => IF contract[m].nonpayable /\ ~IsZero(msgvalue)
           THEN /\ cur = 0
                /\ ~decoded
                /\ pc = "halted"
                /\ halt = 1
                /\ retbuf = EmptyRevert
           ELSE cur = m

\* C4 (amended): a matched non-payable function with value halts with status 1
\* and empty data, nothing is decoded and the body never runs; with zero value,
\* and for a payable function with any value, the arguments are decoded and the
\* body runs if and only if the call data decodes, a failed decode halting with
\* status 1 without running the body.
C4_ValueCheck ==
    LET m == Match(contract, calldata)
    IN  (pc /= "start" /\ m /= 0)
        => IF contract[m].nonpayable /\ ~IsZero(msgvalue)
           THEN /\ cur = 0
                /\ ~decoded
                /\ pc = "halted"
                /\ halt = 1
                /\ retbuf = EmptyRevert
           ELSE /\ decoded
                /\ IF DecodeOk(contract[m], calldata)
                   THEN cur = m
                   ELSE cur = 0 /\ pc = "halted" /\ halt = 1

\* value sent to the non-payable function of a contract that has a payable one
C4_Witness ==
    /\ pc = "halted"
    /\ Match(contract, calldata) /= 0
    /\ ~function_abort_value_transfers(contract)
    /\ contract[Match(contract, calldata)].nonpayable
    /\ ~IsZero(msgvalue)
    /\ DecodeOk(contract[Match(contract, calldata)], calldata)
    /\ halt = 1

\* C5: an invocation whose call data matches no selector of the table halts
\* with status 1 and empty data and runs no function body, whatever follows
\* the first four bytes: the last two calls are set_return(null, 0) and
\* system_halt(1).
C5_NoMatchReverts ==
    (pc /= "start" /\ Match(contract, calldata) = 0)
    => /\ pc = "halted"
       /\ cur = 0
       /\ ~decoded
       /\ halt = 1
       /\ retbuf = EmptyRevert
       /\ SubSeq(calls, Len(calls) - 1, Len(calls)) = assert_failure("null", <<>>, 0)

\* an unmatched selector followed by a 32-byte word, value zero
C5_Witness ==
    /\ pc = "halted"
    /\ Len(calldata) = SelectorLen + WordBytes
    /\ Match(contract, calldata) = 0
    /\ IsZero(msgvalue)
    /\ halt = 1

CallPrimitives == {"invoke_contract", "invoke_static_contract", "invoke_delegate_contract"}

CreatePrimitives == {"create", "create2"}

\* the branching the claims state for a call site: h is the host calls of the
\* operation, of which the first is the one invocation of a primitive of P
Branching(h, P) ==
    LET status == last.hdr[1]
    IN  /\ h /= <<>>
        /\ h[1].prim \in P
        /\ CountPrim(h, P) = 1
        /\ h[1].nums[2] = status
        /\ last.flag /= "none"
           => /\ (last.flag = "true") <=> (status = 0)
              /\ pc = "body"
              /\ Len(h) = 1
        /\ (last.flag = "none" /\ status = 0)
           => /\ pc = "body"
              /\ Len(h) = 1
        /\ (last.flag = "none" /\ status /= 0)
           => /\ pc = "halted"
              /\ halt = 1
              /\ retbuf = EmptyRevert
              /\ Tail(h) = assert_failure("null", <<>>, 0)

\* C6: an external call invokes the host primitive once; with a success flag
\* the flag is true exactly when the status is 0 and execution goes on for
\* every status; without one, status 0 goes on and every other status halts
\* with status 1 and empty data, set_return and system_halt being the only
\* host invocations after the call.
C6_ExternalCallBranching ==
    last.op = "external_call" => Branching(LastHostCalls, CallPrimitives)

\* a call without a success flag that the host answers with status 2
C6_Witness ==
    /\ last.op = "external_call"
    /\ last.flag = "none"
    /\ last.hdr = <<2>>
    /\ pc = "halted"

\* C7: a contract creation branches like an external call on the status the
\* creation primitive returns.
C7_CreateBranching ==
    last.op = "create_contract" => Branching(LastHostCalls, CreatePrimitives)

\* the primitives that take a value
ValuePrimitives == CallPrimitives \cup CreatePrimitives \cup {"transfer"}

ValuePtrOf(c) ==
    IF c.prim \in CallPrimitives THEN c.ptrs[3]
    ELSE IF c.prim = "transfer" THEN c.ptrs[2]
    ELSE c.ptrs[1]

ValueBytesOf(c) ==
    IF c.prim \in CallPrimitives THEN c.data[2] ELSE c.data[1]

\* C8: in an external call, a value transfer and a contract creation the value
\* is stored into one scratch word, reversed into a second one before the
\* host is invoked, and the host is handed the second one.
C8_ValueConverted ==
    last.op \in {"external_call", "value_transfer", "create_contract"}
    => LET cs == CallsFrom(last.from)
           e == CHOOSE i \in 1..Len(cs) : cs[i].prim \in ValuePrimitives
           conv == {i \in 1..(e - 1) : cs[i].prim = "__be32toleN"}
       IN  /\ Cardinality(conv) = 1
           /\ \A i \in conv :
                 /\ cs[i].data[1] = StoreInt(last.val)
                 /\ cs[i].data[2] = Reverse(StoreInt(last.val))
                 /\ cs[i].ptrs[2] = ValuePtrOf(cs[e])
                 /\ cs[i].ptrs[1] /= ValuePtrOf(cs[e])
                 /\ ValueBytesOf(cs[e]) = cs[i].data[2]

\* C9: a creation site invokes one creation primitive: create2, with the
\* staged salt, exactly when a salt was given, otherwise create, which gets
\* no salt pointer; the address location is the result location of both.
C9_CreatePrimitive ==
    last.op = "create_contract"
    => LET h == LastHostCalls
       IN  /\ CountPrim(h, CreatePrimitives) = 1
           /\ h[1].prim \in CreatePrimitives
           /\ (h[1].prim = "create2") <=> (last.prior.kind = "salt")
           /\ h[1].prim = "create2"
              => /\ h[1].ptrs = <<ValuePtrOf(h[1]), "input", "salt_ptr", "address">>
                 /\ h[1].data[3] = StoreInt(last.prior.val)
           /\ h[1].prim = "create"
              => h[1].ptrs = <<ValuePtrOf(h[1]), "input", "address">>

\* a creation with a salt
C9_Witness ==
    /\ last.op = "create_contract"
    /\ last.prior.kind = "salt"
    /\ last.prior.val = HighValue
    /\ LastHostCalls[1].prim = "create2"

\* the original statement of C10: every hashing lowering, keccak256_hash
\* included, delivers the byte-reversed host digest.
C10_Original ==
    last.op \in {"hash", "keccak256_hash"}
    => /\ last.out = Reverse(last.val)
       /\ CountPrim(CallsFrom(last.from), {"__beNtoleN"}) = 1

\* C10 (amended): hash invokes the digest primitive of its algorithm and then
\* reverses the whole digest (32, 20, 32 bytes), delivering the reversed
\* digest; keccak256_hash invokes crypto_keccak256 and delivers the digest as
\* the host wrote it, without a reversal.
C10_HashReversed ==
    /\ last.op = "hash"
       => LET cs == CallsFrom(last.from)
          IN  /\ Len(cs) = 2
              /\ cs[1].prim = HashName(last.prior.kind)
              /\ cs[1].data[2] = last.val
              /\ Len(last.val) = HashLen(last.prior.kind)
              /\ cs[2].prim = "__beNtoleN"
              /\ cs[2].nums = <<HashLen(last.prior.kind)>>
              /\ last.out = Reverse(last.val)
    /\ last.op = "keccak256_hash"
       => /\ Len(CallsFrom(last.from)) = 1
          /\ CallsFrom(last.from)[1].prim = "crypto_keccak256"
          /\ last.out = last.val

\* a ripemd-160 digest delivered reversed
C10_Witness ==
    /\ last.op = "hash"
    /\ last.prior.kind = "Ripemd160"
    /\ Len(last.out) = 20
    /\ last.out /= last.val
    /\ last.out = Reverse(last.val)

-----------------------------------------------------------------------------
(* Termination, registry and limits *)

\* the last two call instructions executed
LastTwoCalls == SubSeq(calls, Len(calls) - 1, Len(calls))

\* the invocation was refused at the entry: nothing matched, or value was sent
\* to a function that takes none
RefusedAtEntry ==
    \/ Match(contract, calldata) = 0
    \/ /\ contract[Match(contract, calldata)].nonpayable
       /\ ~IsZero(msgvalue)

\* C11: every halt carries status 0 or 1 and the data set_return was given
\* just before it: return_abi halts with status 0 and the given buffer and
\* length, return_empty_abi with status 0, a null pointer and length 0,
\* assert_failure with status 1 and the given data, an unmatched dispatch and
\* value sent to a non-payable function with status 1 and empty data.
C11_HaltStatus ==
    pc = "halted"
    => /\ halt \in {0, 1}
       /\ LastTwoCalls = HaltCalls(retbuf.ptr, retbuf.data, retbuf.len, halt)
       /\ last.op = "return_abi"
          => /\ halt = 0
             /\ retbuf = [set |-> TRUE, ptr |-> "data", data |-> last.val,
                          len |-> Len(last.val)]
       /\ last.op = "return_empty_abi"
          => /\ halt = 0
             /\ retbuf = [set |-> TRUE, ptr |-> "null", data |-> <<>>, len |-> 0]
       /\ last.op = "assert_failure"
          => /\ halt = 1
             /\ retbuf.data = last.val
             /\ retbuf.len = Len(last.val)
       /\ (last.op = "start" /\ RefusedAtEntry)
          => /\ halt = 1
             /\ retbuf = EmptyRevert

\* a function body returns a 32-byte word
C11_Witness ==
    /\ pc = "halted"
    /\ last.op = "return_abi"
    /\ halt = 0
    /\ retbuf.data = ArgWord
    /\ retbuf.len = WordBytes

\* C12: system_halt is invoked at most once in an invocation and is the last
\* call instruction executed: the unreachable marker after it never executes,
\* and from a halted invocation no step is taken, so no host primitive is
\* invoked and no slot is written after the halt.
C12_HaltOnce ==
    /\ [](/\ CountPrim(calls, {"system_halt"}) <= 1
          /\ CountPrim(calls, {"unreachable"}) = 0
          /\ (pc = "halted") <=> (CountPrim(calls, {"system_halt"}) = 1)
          /\ pc = "halted" => calls[Len(calls)].prim = "system_halt")
    /\ [][CountPrim(calls, {"system_halt"}) = 0]_vars

\* a body that wrote storage and then reverted on a failed transfer
C12_Witness ==
    /\ pc = "halted"
    /\ last.op = "value_transfer"
    /\ CountPrim(calls, {"save_storage"}) = 1
    /\ CountPrim(calls, {"system_halt"}) = 1

\* C13: every invocation of a generated program eventually reaches
\* system_halt: the entry routine never returns and never falls off its end.
\* (A lowering that aborts the compiler generates no program.)
C13_EventuallyHalts == <>(pc = "halted" \/ pc = "fatal")

\* an unmatched selector: the dispatch ends in return_code, which halts
C13_Witness ==
    /\ pc = "halted"
    /\ last.op = "start"
    /\ Match(contract, calldata) = 0
    /\ decoded = FALSE
    /\ halt = 1

\* C14: every name a lowering operation looks up is declared: each call
\* instruction executed names a declared function, and no lowering operation
\* fails on a name that is missing from the module.
C14_RegistryComplete ==
    /\ \A i \in 1..Len(calls) : calls[i].prim = "abi_decode" \/ get_function(calls[i].prim)
    /\ last.flag /= "missing"

ExtendedStorageOps ==
    {"set_storage_extfunc", "get_storage_extfunc", "get_storage_bytes_subscript",
     "set_storage_bytes_subscript", "storage_push", "storage_pop"}

\* C15: lowering an extended storage shape ends in the compile-time fatal
\* outcome: it emits no call instruction, and no operation follows it.
C15_ExtendedStorageFatal ==
    /\ last.op \in ExtendedStorageOps
       => /\ pc = "fatal"
          /\ Len(calls) = last.from
          /\ halt = NoHalt
    /\ pc = "fatal" => last.op \in ExtendedStorageOps \cup {"selfdestruct", "print"}

\* a push on a storage array after a write to the slot
C15_Witness ==
    /\ pc = "fatal"
    /\ last.op = "storage_push"
    /\ last.prior.kind = "fixed"
    /\ CountPrim(calls, {"save_storage"}) = 1

\* C16: a value transfer invokes transfer once, with the address and the
\* reversed value, and branches on the returned status like an external call.
C16_TransferBranching ==
    last.op = "value_transfer"
    => LET h == LastHostCalls
       IN  /\ Branching(h, {"transfer"})
           /\ h[1].ptrs = <<"address", "value_le_ptr">>
           /\ h[1].data = <<Reverse(StoreInt(last.val))>>

\* a transfer without a success flag that the host answers with status 2
C16_Witness ==
    /\ last.op = "value_transfer"
    /\ last.flag = "none"
    /\ last.hdr = <<2>>
    /\ pc = "halted"
    /\ halt = 1

\* C17: an invocation whose selector matches a function but whose call data
\* does not decode for its parameters halts with status 1; the body never
\* runs and no storage primitive and no call, creation or transfer is invoked.
C17_DecodeFailure ==
    LET m == Match(contract, calldata)
    IN  (pc /= "start" /\ m /= 0
           /\ Len(calldata) < SelectorLen + WordBytes * contract[m].nparams)
        => /\ pc = "halted"
           /\ halt = 1
           /\ cur = 0
           /\ nops = 0
           /\ CountPrim(calls, StoragePrimitives \cup ValuePrimitives) = 0

\* a one-byte argument area for a function that takes a word, value zero
C17_Witness ==
    /\ pc = "halted"
    /\ Match(contract, calldata) /= 0
    /\ contract[Match(contract, calldata)].nparams = 1
    /\ Len(calldata) = SelectorLen + 1
    /\ IsZero(msgvalue)
    /\ decoded
    /\ halt = 1

\* the storage primitive invocations among a sequence of calls: name and slot
RECURSIVE StorageOnly(_)
StorageOnly(s) ==
    IF s = <<>> THEN <<>>
    ELSE IF Head(s).prim \in StoragePrimitives
         THEN << <<Head(s).prim, Head(s).nums[1]>> >> \o StorageOnly(Tail(s))
         ELSE StorageOnly(Tail(s))

\* the storage primitive invocations a storage operation is to issue
ProgramOrder(l) ==
    CASE l.op = "get_storage_int" -> << <<"load_storage", l.slot>> >>
      [] l.op = "set_storage" -> << <<"save_storage", l.slot>> >>
      [] l.op = "storage_delete_single_slot" -> << <<"save_storage", l.slot>> >>
      [] l.op = "set_storage_string" -> << <<"save_storage_string", l.slot>> >>
      [] l.op = "get_storage_string" ->
            << <<"get_storage_string_size", l.slot>>, <<"load_storage_string", l.slot>> >>
      [] OTHER -> <<>>

C19_EncodeAllocation ==
    last.op \in {"abi_encode", "create_contract"}
    => LET cs == CallsFrom(last.from)
           create == last.op = "create_contract"
           prefix == IF create THEN CodeBlob ELSE <<>>
           packed == IF create THEN <<>> ELSE last.val
           args == last.prior.before
           tys == IF create
                  THEN (IF last.width = 0 THEN <<>> ELSE ParamTys(args))
                  ELSE AbiTys(last.val, args)
           size == encoded_length(packed, args, tys) + Len(prefix)
           c == CHOOSE i \in 1..Len(cs) : cs[i].prim \in CreatePrimitives
           data == IF create THEN cs[c].data[2] ELSE last.out
           len == IF create THEN cs[c].nums[1] ELSE last.hdr[1]
       IN  /\ CountPrim(cs, {"__malloc"}) = 1
           /\ cs[1].prim = "__malloc"
           /\ cs[1].nums = <<size>>
           /\ len = size
           /\ Len(data) = size
           /\ SubSeq(data, 1, Len(prefix)) = prefix
           /\ SubSeq(data, Len(prefix) + 1, Len(data)) = finish(packed, args, tys)
           /\ create
              => /\ cs[2] = HostCall("__memcpy", <<"encoded_data", "code">>,
                                     <<CodeBlob>>, <<Len(CodeBlob)>>)
                 /\ last.width = 0 => data = CodeBlob
           /\ ~create => CountPrim(cs, {"__memcpy"}) = 0

\* a creation with a constructor that takes one word
C19_Witness ==
    /\ last.op = "create_contract"
    /\ last.width = 1
    /\ last.prior.before = <<ArgWord>>
    /\ CallsFrom(last.from)[1].nums = <<Len(CodeBlob) + WordBytes>>

\* C20: abi_encode with a selector yields the four bytes of the selector, most
\* significant first, followed by the encoding of the arguments, 4 bytes
\* longer than that encoding; without a selector it yields the encoding of the
\* arguments alone.
C20_SelectorPrefix ==
    last.op = "abi_encode"
    => LET args == last.prior.before
           tuple == finish(<<>>, args, ParamTys(args))
       IN  IF last.val /= None
           THEN /\ Len(last.out) = SelectorLen + Len(tuple)
                /\ last.hdr = <<SelectorLen + Len(tuple)>>
                /\ SelectorOf(SubSeq(last.out, 1, SelectorLen)) = last.val[1]
                /\ SubSeq(last.out, SelectorLen + 1, Len(last.out)) = tuple
           ELSE /\ last.out = tuple
                /\ last.hdr = <<Len(tuple)>>

\* the selector 0x05060708 in front of two words
C20_Witness ==
    /\ last.op = "abi_encode"
    /\ last.val = <<SelectorOf(Sel2)>>
    /\ Len(last.prior.before) = 2
    /\ SubSeq(last.out, 1, SelectorLen) = Sel2
    /\ Len(last.out) = SelectorLen + 2 * WordBytes

-----------------------------------------------------------------------------
(* Builtins, prelude, layout and ordering *)

\* the widths the builtins are to have, in bytes
ClaimedWidth(b) ==
    CASE b \in {"BlockNumber", "Timestamp", "GasLimit", "Gasleft", "ChainId"} -> 8
      [] b \in {"Sender", "Origin", "BlockCoinbase", "GetAddress"} -> AddressLen
      [] b \in {"Value", "Gasprice"} -> ValueLen
      [] b = "BlockDifficulty" -> 32

\* a builtin lowered to one call of its own primitive on a result buffer of
\* its width, the result being the content of the buffer
SingleValueLowered(b, cs) ==
    /\ pc = "body"
    /\ Len(cs) = 1
    /\ cs[1].prim = BuiltinPrimitive(b)
    /\ cs[1].prim \in HostPrimitives
    /\ \A o \in SingleValueBuiltins \ {b} : BuiltinPrimitive(o) /= cs[1].prim
    /\ Len(cs[1].ptrs) = 1
    /\ Len(cs[1].data[1]) = ClaimedWidth(b)
    /\ last.out = Reverse(cs[1].data[1])

\* a lookup with an extra input: the input is stored into a scratch buffer of
\* its own, which the call gets together with the result buffer
InputLowered(b, cs) ==
    /\ pc = "body"
    /\ Len(cs) = 1
    /\ cs[1].prim = (IF b = "BlockHash" THEN "get_block_hash" ELSE "get_external_balance")
    /\ Len(cs[1].ptrs) = 2
    /\ cs[1].ptrs[1] /= cs[1].ptrs[2]
    /\ cs[1].data[1] = Reverse(last.val)
    /\ Len(cs[1].data[1]) = (IF b = "BlockHash" THEN 8 ELSE AddressLen)
    /\ last.out = Reverse(cs[1].data[2])

\* a builtin that aborts the compiler
BuiltinFatal(cs) == pc = "fatal" /\ cs = <<>>

\* the original statement of C21: the context builtins and the two lookups
\* are lowered as stated, and every other builtin is fatal.
C21_Original ==
    last.op = "builtin"
    => LET b == last.prior.kind
           cs == CallsFrom(last.from)
       IN  CASE b \in SingleValueBuiltins -> SingleValueLowered(b, cs)
             [] b \in InputBuiltins -> InputLowered(b, cs)
             [] OTHER -> BuiltinFatal(cs)

\* C21 (amended): each context builtin is one call of its own primitive on a
\* result buffer of its width (8 bytes, address length, value length, 32
\* bytes), the result being the buffer's content; block hash and external
\* balance store their input into a scratch buffer of its own first;
\* ecrecover is one crypto_recover call on the hash, r, s and result buffers;
\* every builtin besides these is fatal at compile time.
C21_Builtins ==
    last.op = "builtin"
    => LET b == last.prior.kind
           cs == CallsFrom(last.from)
       IN  CASE b \in SingleValueBuiltins -> SingleValueLowered(b, cs)
             [] b \in InputBuiltins -> InputLowered(b, cs)
             [] b = "Ecrecover" ->
                   /\ pc = "body"
                   /\ Len(cs) = 1
                   /\ cs[1].prim = "crypto_recover"
                   /\ cs[1].ptrs = <<"hash", "r", "s", "result">>
                   /\ Len(cs[1].data[4]) = AddressLen
                   /\ last.out = Reverse(cs[1].data[4])
             [] OTHER -> BuiltinFatal(cs)

\* msg.value read in a body that was entered with value 1
C21_Witness ==
    /\ last.op = "builtin"
    /\ last.prior.kind = "Value"
    /\ last.out = LowValue
    /\ CallsFrom(last.from)[1].prim = "get_msgvalue"

\* the four call instructions of the prelude for the call data cd
PreludeCalls(cd) ==
    << HostCall("__init_heap", <<>>, <<>>, <<>>),
       HostCall("get_call_size", <<>>, <<>>, <<Len(cd)>>),
       HostCall("__malloc", <<"args">>, <<>>, <<Len(cd)>>),
       HostCall("copy_call_value", <<"args">>, <<cd>>, <<0, Len(cd)>>) >>

\* the positions of the calls of a primitive
PositionsOf(prim) == {i \in 1..Len(calls) : calls[i].prim = prim}

\* heap initialisation, length query, allocation of that length and copy of
\* [0, length) happen once each, in a row; the heap is initialised before any
\* allocation, nothing is freed, and decoding reads that buffer and length
PreludeDone ==
    /\ \A prim \in {"__init_heap", "get_call_size", "copy_call_value"} :
          Cardinality(PositionsOf(prim)) = 1
    /\ \E i \in PositionsOf("__init_heap") :
          /\ i + 3 <= Len(calls)
          /\ SubSeq(calls, i, i + 3) = PreludeCalls(calldata)
          /\ \A j \in PositionsOf("__malloc") : i < j
          /\ \A j \in PositionsOf("abi_decode") :
                /\ i + 3 < j
                /\ calls[j].ptrs = <<"args">>
                /\ calls[j].data = <<calldata>>
                /\ calls[j].nums[1] = Len(calldata)
    /\ Cardinality({j \in PositionsOf("__malloc") : calls[j].ptrs = <<"args">>}) = 1
    /\ PositionsOf("__free") = {}

\* the original statement of C22: every invocation performs the prelude.
C22_Original == pc /= "start" => PreludeDone

\* the invocation carries value and no function of the contract takes any
RefusedEarly == function_abort_value_transfers(contract) /\ ~IsZero(msgvalue)

\* C22 (amended): an invocation that the early value check refuses halts
\* before the prelude and performs none of its steps; every other invocation
\* performs heap initialisation, length query, allocation of exactly that
\* length and the copy of [0, length), once each and in this order, before
\* any allocation and any decoding, and frees nothing.
C22_PreludeOrder ==
    pc /= "start"
    => IF RefusedEarly
       THEN /\ pc = "halted"
            /\ halt = 1
            /\ \A prim \in {"__init_heap", "get_call_size", "__malloc", "copy_call_value"} :
                  PositionsOf(prim) = {}
       ELSE PreludeDone

\* a body that allocates a string buffer after the prelude
C22_Witness ==
    /\ pc = "body"
    /\ last.op = "get_storage_string"
    /\ Cardinality(PositionsOf("__malloc")) = 2
    /\ calls[1].prim = "__init_heap"

\* the original statement of C23: the word handed to save_storage holds the
\* value in its last w bytes, most significant first, and a read takes the
\* value from those bytes.
C23_Original ==
    /\ last.op = "set_storage"
       => last.out = Fill(WordBytes - last.width, 0) \o last.val
    /\ last.op = "get_storage_int"
       => last.out = SubSeq(storage[last.slot], WordBytes - last.width + 1, WordBytes)

\* C23 (amended): the word handed to save_storage holds the value in its
\* first w bytes, least significant byte first, and zeros in the remaining
\* bytes: read as a little-endian 256-bit number it is the value.  A read
\* reconstructs the value from the same first w bytes.
C23_WordLayout ==
    /\ last.op = "set_storage"
       => /\ Len(last.out) = WordBytes
          /\ last.out = Reverse(Fill(WordBytes - last.width, 0) \o last.val)
          /\ storage[last.slot] = last.out
    /\ last.op = "get_storage_int"
       => last.out = Reverse(SubSeq(storage[last.slot], 1, last.width))

\* the value 0x0102 written and read back from the first two bytes
C23_Witness ==
    /\ last.op = "get_storage_int"
    /\ last.prior.kind = "fixed"
    /\ last.width = 2
    /\ SubSeq(storage[last.slot], 1, 2) = <<2, 1>>
    /\ last.out = <<1, 2>>

\* C24: an external call converts the value, stages the gas in a 64-bit
\* scratch word and invokes one primitive, chosen by the kind: it gets the
\* address, the length of the payload, the payload as it was given, the
\* converted value and the staged gas.
C24_CallPrimitive ==
    last.op = "external_call"
    => LET cs == CallsFrom(last.from)
           callty == last.prior.kind
           payload == last.prior.val
           gas == last.prior.before
       IN  /\ CountPrim(cs, CallPrimitives) = 1
           /\ cs[1].prim = "__be32toleN"
           /\ cs[2].prim = (CASE callty = "Regular" -> "invoke_contract"
                              [] callty = "Static" -> "invoke_static_contract"
                              [] callty = "Delegate" -> "invoke_delegate_contract")
           /\ cs[2].ptrs = <<"address", "payload", cs[1].ptrs[2], "gas_ptr">>
           /\ cs[2].data = <<payload, Reverse(StoreInt(last.val)), Reverse(gas)>>
           /\ Len(cs[2].data[3]) = 8
           /\ cs[2].nums[1] = Len(payload)

\* a delegate call
C24_Witness ==
    /\ last.op = "external_call"
    /\ last.prior.kind = "Delegate"
    /\ last.prior.val = Sel1 \o ArgWord
    /\ CallsFrom(last.from)[2].prim = "invoke_delegate_contract"

\* C25: a string read and a return-data read issue a size query, one
\* allocation of header size plus the queried length and one load into the
\* data region, in this order; length field and capacity field of the buffer
\* are the queried length, and the load covers the source from offset 0.
C25_ReadOrder ==
    last.op \in {"get_storage_string", "return_data"}
    => LET cs == CallsFrom(last.from)
           string == last.op = "get_storage_string"
           n == cs[1].nums[Len(cs[1].nums)]
       IN  /\ Len(cs) = 3
           /\ cs[1].prim = (IF string THEN "get_storage_string_size" ELSE "get_return_size")
           /\ cs[2].prim = "__malloc"
           /\ cs[2].nums = <<n + VectorHeader>>
           /\ cs[3].prim = (IF string THEN "load_storage_string" ELSE "copy_return_value")
           /\ cs[3].ptrs[Len(cs[3].ptrs)] = "string.data"
           /\ ~string => cs[3].nums = <<0, n>>
           /\ last.hdr = <<n, n>>
           /\ Len(last.out) = n
           /\ last.out = cs[3].data[1]
           /\ n = Len(IF string THEN storage_string[last.slot] ELSE last.val)

\* the 32 bytes a callee returned are read
C25_Witness ==
    /\ last.op = "return_data"
    /\ last.val = ArgWord
    /\ last.hdr = <<WordBytes, WordBytes>>
    /\ last.out = ArgWord

\* C26: selfdestruct stores the address, issues the self-destruct host call
\* and ends the invocation.
C26_SelfdestructTerminates ==
    last.op = "selfdestruct"
    => /\ Len(CallsFrom(last.from)) = 1
       /\ CallsFrom(last.from)[1].data = <<StoreInt(last.val)>>
       /\ pc \notin {"body", "fatal"}

\* the positions of the value checks
ValueChecks == PositionsOf("get_msgvalue")

\* C27: with the early-abort flag set the value check is the first call of
\* the entry routine and the only one; without the flag the entry routine
\* starts with the heap initialisation, and the one check, made exactly when
\* the matched function is non-payable, follows the copy of the call data and
\* precedes the decoding.  A non-payable function body is reached after
\* exactly one check.
C27_ValueCheckPlacement ==
    pc /= "start"
    => LET m == Match(contract, calldata)
       IN  /\ function_abort_value_transfers(contract)
              => /\ ValueChecks = {1}
                 /\ \A i \in PositionsOf("__init_heap") \cup PositionsOf("get_call_size")
                         \cup PositionsOf("copy_call_value") : i > 1
           /\ ~function_abort_value_transfers(contract)
              => /\ calls[1].prim = "__init_heap"
                 /\ IF m /= 0 /\ contract[m].nonpayable
                    THEN /\ Cardinality(ValueChecks) = 1
                         /\ \A i \in ValueChecks :
                               /\ \A j \in PositionsOf("copy_call_value") : j < i
                               /\ \A j \in PositionsOf("abi_decode") : i < j
                    ELSE ValueChecks = {}
           /\ (cur /= 0 /\ contract[cur].nonpayable) => Cardinality(ValueChecks) = 1

\* a non-payable function of a contract with a payable one runs its body
C27_Witness ==
    /\ pc = "body"
    /\ cur /= 0
    /\ contract[cur].nonpayable
    /\ ~function_abort_value_transfers(contract)
    /\ Cardinality(ValueChecks) = 1

\* C28: a halted invocation has invoked set_return once and system_halt once,
\* as its last two calls, and set_return was given the data and length of the
\* outcome: the buffer of return_abi or assert_failure, and a null pointer
\* with length 0 on every other path.
C28_SetReturnBeforeHalt ==
    pc = "halted"
    => /\ CountPrim(calls, {"set_return"}) = 1
       /\ CountPrim(calls, {"system_halt"}) = 1
       /\ LastTwoCalls =
            << HostCall("set_return", <<retbuf.ptr>>, <<retbuf.data>>, <<retbuf.len>>),
               HostCall("system_halt", <<>>, <<>>, <<halt>>) >>
       /\ IF last.op \in {"return_abi", "assert_failure"}
          THEN /\ retbuf.data = last.val
               /\ retbuf.len = Len(last.val)
               /\ (retbuf.ptr = "null") <=> (last.val = <<>>)
          ELSE /\ last.op \in {"start", "return_empty_abi", "return_code",
                               "external_call", "value_transfer", "create_contract"}
               /\ retbuf = EmptyRevert

\* an external call without a success flag fails
C28_Witness ==
    /\ pc = "halted"
    /\ last.op = "external_call"
    /\ last.hdr = <<1>>
    /\ halt = 1
    /\ LastTwoCalls[1].prim = "set_return"

\* C29: return_code halts with status 1, a null pointer and length 0,
\* whatever its code.
C29_ReturnCode ==
    last.op = "return_code"
    => /\ pc = "halted"
       /\ halt = 1
       /\ retbuf = EmptyRevert
       /\ CallsFrom(last.from) = assert_failure("null", <<>>, 0)

\* return_code with the code for success
C29_Witness ==
    /\ last.op = "return_code"
    /\ last.val = <<0>>
    /\ pc = "halted"
    /\ halt = 1

\* C30: send_event issues write_log(data, data_len) and nothing else, the
\* same call for every event number and every topic list, and never halts.
C30_SendEvent ==
    last.op = "send_event"
    => /\ CallsFrom(last.from) =
            << HostCall("write_log", <<"data">>, <<last.val>>, <<Len(last.val)>>) >>
       /\ pc = "body"
       /\ halt = NoHalt

\* event 1 with two topics
C30_Witness ==
    /\ last.op = "send_event"
    /\ last.slot = 1
    /\ last.hdr = <<Sel1, Sel2>>
    /\ last.val = <<97, 98, 99>>
    /\ CountPrim(CallsFrom(last.from), {"write_log"}) = 1

====
